---------------------------- MODULE Spec2Model ----------------------------
(***************************************************************************)
(* Model of the media-insights repository: the pivot builder               *)
(* (diligence/pivoting.py), the analysis engine and the fallback narrative *)
(* generator (diligence/insights.py) and the wizard session of app.py.     *)
(*                                                                         *)
(* Text is a sequence of one-character strings, numbers are exact          *)
(* rationals (floating-point rounding is not modelled), a missing value    *)
(* (NaN / None) is its own cell.                                           *)
(***************************************************************************)
EXTENDS Integers, Sequences, FiniteSets, TLC

VARIABLES
    df,            \* pivoting: the flat table handed to build_pivot
    call,          \* pivoting: the arguments of the last build_pivot call
    result,        \* pivoting: what that call returned or raised
    payload,       \* insights: the payload under analysis
    analysis,      \* insights: outcome of _analyze_payload(payload)
    fb,            \* insights: outcome of fallback_comment_on_pivot(payload)
    session,       \* app.py: st.session_state (df, pivot)
    page,          \* app.py: what the last script run rendered
    series,        \* formatters: the series handed to to_num
    converted,     \* formatters: to_num(series) and to_num(to_num(series))
    cut,           \* insights: the max_rows of the last pivot_to_payload call
    prompt         \* insights: outcome of _shrink_payload_for_prompt(payload)

vars == <<df, call, result, payload, analysis, fb, session, page,
          series, converted, cut, prompt>>

-----------------------------------------------------------------------------
(* Bounds of the model *)

MaxTableRows == 2
MaxPayloadRows == 2

-----------------------------------------------------------------------------
(* Generic helpers *)

Range(s) == {s[i] : i \in DOMAIN s}

SeqMap(Op(_), s) == [i \in DOMAIN s |-> Op(s[i])]

RECURSIVE SeqSumInt(_)
SeqSumInt(s) == IF s = <<>> THEN 0 ELSE Head(s) + SeqSumInt(Tail(s))

Min2(a, b) == IF a <= b THEN a ELSE b
Max2(a, b) == IF a >= b THEN a ELSE b

Take(s, n) == SubSeq(s, 1, Min2(n, Len(s)))

\* s[-n:] of Python for n > 0
LastN(s, n) == SubSeq(s, Max2(1, Len(s) - n + 1), Len(s))

Reverse(s) == [i \in DOMAIN s |-> s[Len(s) + 1 - i]]

\* all sequences over S of length 0..n
SeqsUpTo(S, n) == UNION {[1..k -> S] : k \in 0..n}

-----------------------------------------------------------------------------
(* Exact rational numbers [n |-> numerator, d |-> denominator > 0] *)

Abs(i) == IF i < 0 THEN -i ELSE i

RECURSIVE GCD(_, _)
GCD(a, b) == IF b = 0 THEN a ELSE GCD(b, a % b)

Q(n, d) ==
    LET s == IF d < 0 THEN -1 ELSE 1
        g == GCD(Abs(n), Abs(d))
    IN  [n |-> (s * n) \div g, d |-> (s * d) \div g]

QInt(i) == [n |-> i, d |-> 1]
QAdd(a, b) == Q(a.n * b.d + b.n * a.d, a.d * b.d)
QSub(a, b) == Q(a.n * b.d - b.n * a.d, a.d * b.d)
QMul(a, b) == Q(a.n * b.n, a.d * b.d)
QDiv(a, b) == Q(a.n * b.d, a.d * b.n)          \* b.n # 0
QAbs(a) == [n |-> Abs(a.n), d |-> a.d]
QLess(a, b) == a.n * b.d < b.n * a.d
QLeq(a, b) == a.n * b.d <= b.n * a.d

-----------------------------------------------------------------------------
(* Cells: a number, a text, a missing float (NaN) or None *)

Zero == QInt(0)
Num(q) == [t |-> "num", q |-> q, s |-> <<>>]
NumI(i) == Num(QInt(i))
Txt(s) == [t |-> "txt", q |-> Zero, s |-> s]
NaN == [t |-> "nan", q |-> Zero, s |-> <<>>]
NoneCell == [t |-> "none", q |-> Zero, s |-> <<>>]

IsNum(c) == c.t = "num"
IsNaN(c) == c.t = "nan"
NotNa(c) == c.t \notin {"nan", "none"}

\* sum of the numeric cells of a sequence, missing cells skipped
\* (Series.sum(skipna=True), numpy.nansum): 0 when there is none
RECURSIVE NanSum(_)
NanSum(cells) ==
    IF cells = <<>> THEN Zero
    ELSE IF IsNum(Head(cells)) THEN QAdd(Head(cells).q, NanSum(Tail(cells)))
    ELSE NanSum(Tail(cells))


-----------------------------------------------------------------------------
(* Text: sequences of one-character strings.  "nbsp" stands for U+00A0 and  *)
(* "e'" for U+00E9.  Characters are listed in code-point order.             *)

Digits == <<"0", "1", "2", "3", "4", "5", "6", "7", "8", "9">>
Upper == <<"A", "B", "C", "D", "E", "F", "G", "H", "I", "J", "K", "L", "M",
           "N", "O", "P", "Q", "R", "S", "T", "U", "V", "W", "X", "Y", "Z">>
Lower == <<"a", "b", "c", "d", "e", "f", "g", "h", "i", "j", "k", "l", "m",
           "n", "o", "p", "q", "r", "s", "t", "u", "v", "w", "x", "y", "z">>
CodePoints == <<" ", "*", "+", ",", "-", ".">> \o Digits \o <<"|">> \o Upper
              \o <<"_">> \o Lower \o <<"nbsp", "e'">>

IndexOf(seq, c) == CHOOSE i \in DOMAIN seq : seq[i] = c

CharCode(c) == IndexOf(CodePoints, c)

IsDigit(c) == c \in Range(Digits)
DigitVal(c) == IndexOf(Digits, c) - 1

\* str.lower() on one character
LowerChar(c) == IF c \in Range(Upper) THEN Lower[IndexOf(Upper, c)] ELSE c
LowerText(s) == SeqMap(LowerChar, s)

\* \w of Python's re on str patterns: letters (Unicode), digits, underscore
IsWordChar(c) == c \in Range(Upper) \cup Range(Lower) \cup Range(Digits) \cup {"_", "e'"}

\* Python's str < str: lexicographic by code point
RECURSIVE TextLess(_, _)
TextLess(a, b) ==
    IF b = <<>> THEN FALSE
    ELSE IF a = <<>> THEN TRUE
    ELSE IF Head(a) = Head(b) THEN TextLess(Tail(a), Tail(b))
    ELSE CharCode(Head(a)) < CharCode(Head(b))

\* str.replace(old, new) for a one-character old; new is a text
RECURSIVE ReplaceChar(_, _, _)
ReplaceChar(s, old, new) ==
    IF s = <<>> THEN <<>>
    ELSE (IF Head(s) = old THEN new ELSE <<Head(s)>>) \o ReplaceChar(Tail(s), old, new)

RECURSIVE IntDigits(_)
IntDigits(n) ==
    IF n < 10 THEN <<Digits[n + 1]>>
    ELSE IntDigits(n \div 10) \o <<Digits[(n % 10) + 1]>>

RECURSIVE DigitsVal(_)
DigitsVal(s) ==
    IF s = <<>> THEN 0 ELSE DigitsVal(SubSeq(s, 1, Len(s) - 1)) * 10 + DigitVal(s[Len(s)])

RECURSIVE Pow10(_)
Pow10(k) == IF k = 0 THEN 1 ELSE 10 * Pow10(k - 1)

\* the number of decimals of str(x): the fewest, at least one, that give x
\* back (at most the 17 significant digits of a float)
Decimals(q) ==
    IF \E k \in 1..17 : (Abs(q.n) * Pow10(k)) % q.d = 0
    THEN CHOOSE k \in 1..17 : /\ (Abs(q.n) * Pow10(k)) % q.d = 0
                              /\ \A j \in 1..(k - 1) : (Abs(q.n) * Pow10(j)) % q.d # 0
    ELSE 17

\* str(x) of a float: "12.0", "1.5", "0.255", "-3.0".  The exponent form
\* of very large and very small floats is outside the values used.
FloatStr(q) ==
    LET k == Decimals(q)
        m == (Abs(q.n) * Pow10(k)) \div q.d
    IN  (IF q.n < 0 THEN <<"-">> ELSE <<>>)
        \o IntDigits(m \div Pow10(k)) \o <<".">>
        \o [i \in 1..k |-> Digits[((m \div Pow10(k - i)) % 10) + 1]]

\* Series.astype(str) on one cell
AsStr(c) ==
    IF IsNum(c) THEN FloatStr(c.q)
    ELSE IF IsNaN(c) THEN <<"n", "a", "n">>
    ELSE IF c.t = "none" THEN <<"N", "o", "n", "e">>
    ELSE c.s

\* pandas.to_numeric(errors="coerce") on one string: [sign] digits [. digits]
\* with at least one digit parses, everything else ("nan", "", "abc",
\* "1.2.3") is missing.  Exponents and "inf" are outside the alphabet used.
ParseNumber(s) ==
    LET signed == s # <<>> /\ Head(s) \in {"+", "-"}
        body == IF signed THEN Tail(s) ELSE s
        dots == {i \in DOMAIN body : body[i] = "."}
        dot == IF dots = {} THEN Len(body) + 1 ELSE CHOOSE i \in dots : TRUE
        ip == SubSeq(body, 1, dot - 1)
        fp == SubSeq(body, dot + 1, Len(body))
        ok == /\ Cardinality(dots) <= 1
              /\ \A i \in DOMAIN body : i \in dots \/ IsDigit(body[i])
              /\ Len(ip) + Len(fp) >= 1
        mag == Q(DigitsVal(ip) * Pow10(Len(fp)) + DigitsVal(fp), Pow10(Len(fp)))
    IN  IF ~ok THEN NaN
        ELSE IF signed /\ Head(s) = "-" THEN Num(Q(-mag.n, mag.d))
        ELSE Num(mag)

\* the normalisation that also takes "." for a thousands separator
ToNumCellDroppingDots(c) ==
    ParseNumber(
        ReplaceChar(ReplaceChar(ReplaceChar(ReplaceChar(AsStr(c), "nbsp", <<>>), " ", <<>>),
                                ".", <<>>),
                    ",", <<".">>))

\* formatters.to_num on one element of the series
ToNumCell(c) ==
    ParseNumber(
        ReplaceChar(ReplaceChar(ReplaceChar(AsStr(c), "nbsp", <<>>), " ", <<>>), ",", <<".">>))

to_num(s) == SeqMap(ToNumCell, s)

-----------------------------------------------------------------------------
(* Tables, keys and groups (pandas.pivot_table as build_pivot calls it)      *)
(* A table is a sequence of rows, a row a function from column names to     *)
(* cells.                                                                   *)

\* order of two key cells in a sorted group index: numbers before texts
CellLess(a, b) ==
    IF IsNum(a) /\ IsNum(b) THEN QLess(a.q, b.q)
    ELSE IF a.t = "txt" /\ b.t = "txt" THEN TextLess(a.s, b.s)
    ELSE IsNum(a) /\ b.t = "txt"

RECURSIVE KeyLess(_, _)
KeyLess(a, b) ==
    IF a = <<>> \/ b = <<>> THEN a = <<>> /\ b # <<>>
    ELSE IF Head(a) = Head(b) THEN KeyLess(Tail(a), Tail(b))
    ELSE CellLess(Head(a), Head(b))

\* the elements of a finite set in increasing order of the strict total
\* order Less
SortSet(S, Less(_, _)) ==
    [k \in 1..Cardinality(S) |->
        CHOOSE x \in S : Cardinality({y \in S : Less(y, x)}) = k - 1]

\* stable sort of a sequence, increasing in Less (sorted() of Python): an
\* element goes after those that are smaller and after the earlier ones that
\* are not larger
StableSort(s, Less(_, _)) ==
    LET before(i) == {j \in DOMAIN s :
                        Less(s[j], s[i]) \/ (j < i /\ ~Less(s[i], s[j]))}
    IN  [k \in DOMAIN s |->
            s[CHOOSE i \in DOMAIN s : Cardinality(before(i)) = k - 1]]

\* first occurrences, in order (Index.unique())
RECURSIVE Unique(_)
Unique(s) ==
    IF s = <<>> THEN <<>>
    ELSE LET init == Unique(SubSeq(s, 1, Len(s) - 1))
         IN  IF s[Len(s)] \in Range(init) THEN init ELSE Append(init, s[Len(s)])

RowKey(row, cols) == [i \in DOMAIN cols |-> row[cols[i]]]

Column(table, col) == [i \in DOMAIN table |-> table[i][col]]

\* DataFrame.groupby(keys, sort=True, dropna=True): rows with a missing key
\* cell belong to no group; groups come in sorted key order
GroupKeys(table, keys) ==
    SortSet({RowKey(table[i], keys) :
                i \in {j \in DOMAIN table : \A k \in Range(keys) : NotNa(table[j][k])}},
            KeyLess)

GroupRows(table, keys, key) ==
    SelectSeq(table, LAMBDA r : RowKey(r, keys) = key)

QLessCell(a, b) == QLess(a.q, b.q)

\* one aggregated cell of a group: missing cells are skipped
Aggregate(agg, cells) ==
    LET nums == SelectSeq(cells, IsNum)
        srt == StableSort(nums, QLessCell)
        n == Len(nums)
    IN  CASE agg = "sum" -> Num(NanSum(cells))
          [] agg = "count" -> NumI(Len(SelectSeq(cells, NotNa)))
          [] agg = "mean" ->
                IF n = 0 THEN NaN ELSE Num(QDiv(NanSum(cells), QInt(n)))
          [] agg = "median" ->
                IF n = 0 THEN NaN
                ELSE IF n % 2 = 1 THEN srt[(n + 1) \div 2]
                ELSE Num(QDiv(QAdd(srt[n \div 2].q, srt[(n \div 2) + 1].q), QInt(2)))
          [] agg = "min" -> IF n = 0 THEN NaN ELSE srt[1]
          [] agg = "max" -> IF n = 0 THEN NaN ELSE srt[n]

FillNa(c) == IF IsNaN(c) THEN NumI(0) ELSE c

\* grouped.agg(aggfunc) followed by agged.dropna(how="all"): one entry per
\* group, in key order, that has a non-missing aggregate
Agged(table, keys, value_cols, agg) ==
    LET gk == GroupKeys(table, keys)
        all == [g \in DOMAIN gk |->
                  [key |-> gk[g],
                   vals |-> [v \in DOMAIN value_cols |->
                               Aggregate(agg, Column(GroupRows(table, keys, gk[g]),
                                                    value_cols[v]))]]]
    IN  SelectSeq(all, LAMBDA e : \E v \in DOMAIN e.vals : NotNa(e.vals[v]))

-----------------------------------------------------------------------------
(* Pivot tables.  A pivot is [names, columns, rows]: the names of the row   *)
(* index levels, the column labels (each a sequence of cells) and the rows  *)
(* [key, kind, vals].  kind ("member", "subtotal", "total") records where a *)
(* row comes from; the code never reads it, only the claims do.             *)

SubtotalLabel == <<"S", "o", "u", "s", "-", "t", "o", "t", "a", "l">>
TotalLabel == <<"T", "o", "t", "a", "l">>

Pivot(names, columns, rows) == [names |-> names, columns |-> columns, rows |-> rows]
EmptyPivot == Pivot(<<>>, <<>>, <<>>)
PRow(key, kind, vals) == [key |-> key, kind |-> kind, vals |-> vals]

\* DataFrame.sum(numeric_only=True).values: one sum per column
ColumnSums(rows, ncols) ==
    [j \in 1..ncols |-> Num(NanSum([i \in DOMAIN rows |-> rows[i].vals[j]]))]

\* DataFrame.dropna(how="all"): rows without any non-missing value go
DropEmptyRows(rows) ==
    SelectSeq(rows, LAMBDA r : \E j \in DOMAIN r.vals : NotNa(r.vals[j]))

\* pandas.pivot_table(df, index, columns, values, aggfunc, fill_value=0,
\* margins=False)
PivotTable(table, index_cols, columns_cols, value_cols, agg) ==
    LET ni == Len(index_cols)
        ag == Agged(table, index_cols \o columns_cols, value_cols, agg)
        sv == SortSet(Range(value_cols), TextLess)        \* sort_index(axis=1)
        vpos(v) == IndexOf(value_cols, v)
        rowkeys == Unique([e \in DOMAIN ag |-> SubSeq(ag[e].key, 1, ni)])
        colkeys == SortSet({SubSeq(ag[e].key, ni + 1, Len(ag[e].key)) : e \in DOMAIN ag},
                           KeyLess)
        nc == Len(colkeys)
        cell(rk, v, ck) ==
            IF \E e \in DOMAIN ag : ag[e].key = rk \o ck
            THEN FillNa(ag[CHOOSE e \in DOMAIN ag : ag[e].key = rk \o ck].vals[vpos(v)])
            ELSE NumI(0)                                   \* fill_value
    IN  IF ag = <<>> /\ ni > 0
        THEN \* no group left: dropna(how="all", axis=1) leaves no column
             Pivot(index_cols, <<>>, <<>>)
        ELSE IF columns_cols = <<>>
        THEN Pivot(index_cols,
                   [k \in DOMAIN sv |-> <<Txt(sv[k])>>],
                   [e \in DOMAIN ag |->
                      PRow(ag[e].key, "member",
                           [k \in DOMAIN sv |-> FillNa(ag[e].vals[vpos(sv[k])])])])
        ELSE IF ni > 0
        THEN \* the column keys are unstacked under each value column
             Pivot(index_cols,
                   [k \in 1..(Len(sv) * nc) |->
                      <<Txt(sv[((k - 1) \div nc) + 1])>> \o colkeys[((k - 1) % nc) + 1]],
                   [r \in DOMAIN rowkeys |->
                      PRow(rowkeys[r], "member",
                           [k \in 1..(Len(sv) * nc) |->
                              cell(rowkeys[r], sv[((k - 1) \div nc) + 1],
                                   colkeys[((k - 1) % nc) + 1])])])
        ELSE \* no row group: the table is transposed, one row per value column
             Pivot(<<>>,
                   colkeys,
                   [k \in DOMAIN sv |->
                      PRow(<<Txt(sv[k])>>, "member",
                           [c \in DOMAIN colkeys |-> cell(<<>>, sv[k], colkeys[c])])])

-----------------------------------------------------------------------------
(* diligence/pivoting.py *)

RECURSIVE Concat(_)
Concat(pieces) == IF pieces = <<>> THEN <<>> ELSE Head(pieces) \o Concat(Tail(pieces))

\* outcomes of a call: a returned pair (pvt, msg), pvt possibly None, or an
\* exception leaving the function
Returned(pvt, msg) ==
    [raised |-> FALSE, exc |-> "", null |-> FALSE, pvt |-> pvt, msg |-> msg]
ReturnedNone(msg) ==
    [raised |-> FALSE, exc |-> "", null |-> TRUE, pvt |-> EmptyPivot, msg |-> msg]
Raised(exc) ==
    [raised |-> TRUE, exc |-> exc, null |-> TRUE, pvt |-> EmptyPivot, msg |-> ""]

MsgNoGroup == "Choisis au moins **une** colonne pour *Lignes* **ou** *Colonnes*."
MsgNoMetric == "Choisis au moins **une** metrique dans *Valeurs*."

\* the row filter of the grand total: rows whose second key is the label
IsSubtotalKey(row, subtotal_label) == row.key[2] = Txt(subtotal_label)

add_row_subtotals_and_total(pvt, subtotal_label, total_label) ==
    LET ncols == Len(pvt.columns)
        nlevels == Len(pvt.names)
        groups == Unique([i \in DOMAIN pvt.rows |-> pvt.rows[i].key[1]])
        block(g) == SelectSeq(pvt.rows, LAMBDA r : r.key[1] = g)
        sub_row(g) == PRow(<<g, Txt(subtotal_label)>>, "subtotal",
                           ColumnSums(block(g), ncols))
        pieces == [k \in DOMAIN groups |-> Append(block(groups[k]), sub_row(groups[k]))]
        out == Concat(pieces)
        total_vals == ColumnSums(SelectSeq(out, LAMBDA r : ~IsSubtotalKey(r, subtotal_label)),
                                 ncols)
        total_row == PRow(<<Txt(total_label), Txt(<<>>)>>, "total", total_vals)
    IN  IF nlevels >= 2
        THEN IF groups # <<>> /\ nlevels # 2
             THEN \* MultiIndex.from_tuples([(g, label)], names=<nlevels names>)
                  Raised("ValueError")
             ELSE IF pieces = <<>>
             THEN \* pd.concat([]): no objects to concatenate
                  Raised("ValueError")
             ELSE Returned(Pivot(pvt.names, pvt.columns, Append(out, total_row)), "")
        ELSE Returned(Pivot(pvt.names, pvt.columns,
                            Append(pvt.rows,
                                   PRow(<<Txt(total_label)>>, "total",
                                        ColumnSums(pvt.rows, ncols)))), "")

ArithmeticAggs == {"sum", "mean", "median", "min", "max"}
Aggregators == {"sum", "mean", "count", "median", "min", "max"}

\* lines 36-41: the metric columns go through to_num for the arithmetic
\* aggregators
CoerceValues(table, value_cols, agg_choice) ==
    [i \in DOMAIN table |->
        [c \in DOMAIN table[i] |->
            IF c \in Range(value_cols) /\ agg_choice \in ArithmeticAggs
            THEN ToNumCell(table[i][c]) ELSE table[i][c]]]

\* line 55: pivot = pivot.dropna(how="all")
DropAllNaRows(raw) == Pivot(raw.names, raw.columns, DropEmptyRows(raw.rows))

\* lines 57-66: subtotals and grand total, or the grand total only
AddTotals(pvt, columns_cols) ==
    IF Len(pvt.names) >= 2 /\ columns_cols = <<>>
    THEN add_row_subtotals_and_total(pvt, SubtotalLabel, TotalLabel)
    ELSE Returned(Pivot(pvt.names, pvt.columns,
                        Append(pvt.rows,
                               PRow(<<Txt(TotalLabel)>>, "total",
                                    ColumnSums(pvt.rows, Len(pvt.columns))))), "")

build_pivot(table, index_cols, columns_cols, value_cols, agg_choice) ==
    IF index_cols = <<>> /\ columns_cols = <<>> THEN ReturnedNone(MsgNoGroup)
    ELSE IF value_cols = <<>> THEN ReturnedNone(MsgNoMetric)
    ELSE AddTotals(DropAllNaRows(PivotTable(CoerceValues(table, value_cols, agg_choice),
                                            index_cols, columns_cols, value_cols,
                                            agg_choice)),
                   columns_cols)

-----------------------------------------------------------------------------
(* The tables and calls build_pivot is exercised on *)

colA == <<"A">>
colB == <<"B">>
colC == <<"C">>
colM == <<"M">>

TableRow(a, b, c, m) == (colA :> a) @@ (colB :> b) @@ (colC :> c) @@ (colM :> m)

\* grouping values: a second-level value may be any text, "Sous-total"
\* included; a first-level value may be missing
ValuesA == {Txt(<<"x">>), Txt(<<"y">>), NaN}
ValuesB == {Txt(<<"b">>), Txt(SubtotalLabel)}
ValuesC == {Txt(<<"c">>)}
\* metric cells: a number, a missing cell, the text "1,5"
ValuesM == {NumI(1), NaN, Txt(<<"1", ",", "5">>)}

TableRows == {TableRow(a, b, c, m) : a \in ValuesA, b \in ValuesB, c \in ValuesC, m \in ValuesM}
Tables == SeqsUpTo(TableRows, MaxTableRows)

IndexChoices == {<<>>, <<colA>>, <<colA, colB>>, <<colA, colB, colC>>}
ColumnsChoices == {<<>>, <<colB>>, <<colC>>}
ValueChoices == {<<>>, <<colM>>}

NoCall == [made |-> FALSE, index_cols |-> <<>>, columns_cols |-> <<>>,
           value_cols |-> <<>>, agg_choice |-> ""]

PivotIdle == df = <<>> /\ call = NoCall /\ result = ReturnedNone("")

PivotInit == df \in Tables /\ call = NoCall /\ result = ReturnedNone("")

\* one call build_pivot(df, index_cols, columns_cols, value_cols, agg_choice)
BuildPivot(ic, cc, vc, agg) ==
    /\ ~call.made
    /\ Range(ic) \cap Range(cc) = {}
    /\ call' = [made |-> TRUE, index_cols |-> ic, columns_cols |-> cc,
                value_cols |-> vc, agg_choice |-> agg]
    /\ result' = build_pivot(df, ic, cc, vc, agg)
    /\ UNCHANGED <<df, payload, analysis, fb, session, page, series, converted, cut, prompt>>

PivotNext ==
    \E ic \in IndexChoices, cc \in ColumnsChoices, vc \in ValueChoices, agg \in Aggregators :
        BuildPivot(ic, cc, vc, agg)

-----------------------------------------------------------------------------
(* diligence/insights.py: metric inference *)

\* a column name or None
NoCol == [has |-> FALSE, name |-> <<>>]
Col(name) == [has |-> TRUE, name |-> name]

\* \b at position p of s: between s[p-1] and s[p]
WordBoundary(s, p) ==
    LET w(k) == k \in DOMAIN s /\ IsWordChar(s[k])
    IN  w(p - 1) # w(p)

\* re.compile(r"\b<cand>\b", re.I).search(name)
MatchesWord(name, cand) ==
    LET n == LowerText(name)
        c == LowerText(cand)
    IN  \E i \in 1..(Len(n) - Len(c) + 1) :
            /\ SubSeq(n, i, i + Len(c) - 1) = c
            /\ WordBoundary(n, i)
            /\ WordBoundary(n, i + Len(c))

\* the first column matching one of the candidates, None when there is none
_find_col(cols, candidates) ==
    LET hits == {i \in DOMAIN cols : \E k \in DOMAIN candidates : MatchesWord(cols[i], candidates[k])}
    IN  IF hits = {} THEN NoCol
        ELSE Col(cols[CHOOSE i \in hits : \A j \in hits : i <= j])

KwImpressions == <<<<"I", "m", "p", "r", "e", "s", "s", "i", "o", "n", "s">>, <<"I", "m", "p", "r">>, <<"I", "m", "p", "s">>>>
KwClicks == <<<<"C", "l", "i", "c", "k", "s">>, <<"C", "l", "i", "c", "k">>, <<"C", "l", "i", "c", "s">>>>
KwCtr == <<<<"C", "T", "R">>, <<"C", "l", "i", "c", "k", "-", "T", "h", "r", "o", "u", "g", "h", " ", "R", "a", "t", "e">>>>
KwSpend == <<<<"S", "p", "e", "n", "d">>, <<"C", "o", "s", "t">>, <<"D", "e'", "p", "e", "n", "s", "e">>, <<"B", "u", "d", "g", "e", "t">>>>
KwCpc == <<<<"C", "P", "C">>>>
KwCpm == <<<<"C", "P", "M">>>>

RowGet(row, name) == IF name \in DOMAIN row THEN row[name] ELSE NoneCell

\* isinstance(v, (int, float)): numbers and the float NaN
IsIntOrFloat(c) == c.t \in {"num", "nan"}

\* lines 101-112: the first candidate found, else the first column holding
\* an int or a float in some row
PrimaryMetric(p, cands) ==
    LET cols == p.columns
        numeric == {i \in DOMAIN cols :
                      \E r \in DOMAIN p.rows : IsIntOrFloat(RowGet(p.rows[r], cols[i]))}
    IN  IF cands # <<>> THEN Head(cands)
        ELSE IF numeric # {} THEN Col(cols[CHOOSE i \in numeric : \A j \in numeric : i <= j])
        ELSE NoCol

InferredMetrics(p, col_impr, col_clicks, col_ctr, col_spend, col_cpc, col_cpm) ==
    [impressions |-> col_impr, clicks |-> col_clicks, ctr |-> col_ctr,
     spend |-> col_spend, cpc |-> col_cpc, cpm |-> col_cpm,
     primary |-> PrimaryMetric(p, SelectSeq(<<col_spend, col_clicks, col_impr,
                                              col_ctr, col_cpc, col_cpm>>,
                                            LAMBDA c : c.has))]

_infer_metrics_from_payload(p) ==
    InferredMetrics(p, _find_col(p.columns, KwImpressions), _find_col(p.columns, KwClicks),
                    _find_col(p.columns, KwCtr), _find_col(p.columns, KwSpend),
                    _find_col(p.columns, KwCpc), _find_col(p.columns, KwCpm))

-----------------------------------------------------------------------------
(* diligence/insights.py: _analyze_payload *)

\* pandas.to_numeric(series, errors="coerce") on one element
NumericCell(c) ==
    IF IsNum(c) THEN c
    ELSE IF c.t = "txt" THEN ParseNumber(c.s)
    ELSE NaN

\* col_series(name): None for an absent column, else the numeric series
NoSeries == [has |-> FALSE, s |-> <<>>]
col_series(rows, col) ==
    IF ~col.has THEN NoSeries
    ELSE [has |-> TRUE, s |-> [i \in DOMAIN rows |-> NumericCell(RowGet(rows[i], col.name))]]

\* Series.notna().any()
AnyNum(cells) == \E i \in DOMAIN cells : IsNum(cells[i])

\* a float or None
OptNull == [null |-> TRUE, q |-> Zero]
OptNum(q) == [null |-> FALSE, q |-> q]

\* Series.sum() and Series.mean() over the present values
RECURSIVE QSum(_)
QSum(qs) == IF qs = <<>> THEN Zero ELSE QAdd(Head(qs), QSum(Tail(qs)))

QMean(qs) == QDiv(QSum(qs), QInt(Len(qs)))

\* the ratio of two aggregate sums
RatioOfSums(num, den) == QDiv(num, den)

\* lines 135-156: the dict "weighted", from the three sums
WeightedOfSums(s_impr, s_clicks, s_spend, sum_impr, sum_clicks, sum_spend) ==
    (IF s_impr.has /\ s_clicks.has /\ AnyNum(s_impr.s)
     THEN ("ctr_weighted" :> (IF QLess(Zero, sum_impr)
                               THEN OptNum(RatioOfSums(sum_clicks, sum_impr))
                               ELSE OptNull))
          @@ ("clicks_sum" :> OptNum(sum_clicks))
          @@ ("impressions_sum" :> OptNum(sum_impr))
     ELSE ("ctr_weighted" :> OptNull))
    @@
    (IF s_spend.has /\ s_clicks.has /\ AnyNum(s_clicks.s)
     THEN ("cpc_weighted" :> (IF QLess(Zero, sum_clicks)
                               THEN OptNum(RatioOfSums(sum_spend, sum_clicks))
                               ELSE OptNull))
          @@ ("spend_sum" :> OptNum(sum_spend))
     ELSE ("cpc_weighted" :> OptNull))
    @@
    (IF s_spend.has /\ s_impr.has /\ AnyNum(s_impr.s)
     THEN ("cpm_weighted" :> (IF QLess(Zero, sum_impr)
                               THEN OptNum(QMul(RatioOfSums(sum_spend, sum_impr),
                                                QInt(1000)))
                               ELSE OptNull))
     ELSE <<>>)                                \* no else branch: no entry

\* the click-rate taken as the mean of the per-row clicks / impressions
MeanOfRatios(s_impr, s_clicks) ==
    LET both == {i \in DOMAIN s_impr.s :
                   /\ IsNum(s_impr.s[i]) /\ IsNum(s_clicks.s[i]) /\ s_impr.s[i].q # Zero}
        idx == SortSet(both, LAMBDA a, b : a < b)
    IN  IF both = {} THEN OptNull
        ELSE OptNum(QMean([k \in DOMAIN idx |->
                              QDiv(s_clicks.s[idx[k]].q, s_impr.s[idx[k]].q)]))

WeightedByMeanOfRatios(s_impr, s_clicks, s_spend) ==
    [k \in DOMAIN WeightedOfSums(s_impr, s_clicks, s_spend, NanSum(s_impr.s),
                                 NanSum(s_clicks.s), NanSum(s_spend.s)) |->
        IF k = "ctr_weighted" /\ s_impr.has /\ s_clicks.has
        THEN MeanOfRatios(s_impr, s_clicks)
        ELSE WeightedOfSums(s_impr, s_clicks, s_spend, NanSum(s_impr.s),
                            NanSum(s_clicks.s), NanSum(s_spend.s))[k]]

Weighted(s_impr, s_clicks, s_spend) ==
    WeightedOfSums(s_impr, s_clicks, s_spend,
                   NanSum(s_impr.s), NanSum(s_clicks.s), NanSum(s_spend.s))

\* numpy.nanpercentile(vals, pct), linear interpolation, vals non-empty
Percentile(vals, pct) ==
    LET srt == StableSort(vals, QLess)
        n == Len(srt)
        lo == ((n - 1) * pct) \div 100
        frac == Q(((n - 1) * pct) % 100, 100)
    IN  IF lo + 2 > n THEN srt[lo + 1]
        ELSE QAdd(srt[lo + 1], QMul(frac, QSub(srt[lo + 2], srt[lo + 1])))

\* lines 159-169: std is kept as its square (the population variance)
NoDispersion == [has |-> FALSE, var |-> Zero, iqr |-> Zero, min |-> Zero, max |-> Zero]
Dispersion(s_primary) ==
    IF ~(s_primary.has /\ AnyNum(s_primary.s)) THEN NoDispersion
    ELSE LET cells == SelectSeq(s_primary.s, IsNum)
             vals == [i \in DOMAIN cells |-> cells[i].q]
             mu == QMean(vals)
             srt == StableSort(vals, QLess)
         IN  [has |-> TRUE,
              var |-> QMean([i \in DOMAIN vals |->
                               QMul(QSub(vals[i], mu), QSub(vals[i], mu))]),
              iqr |-> QSub(Percentile(vals, 75), Percentile(vals, 25)),
              min |-> srt[1],
              max |-> srt[Len(srt)]]

TopN == 5

\* sort keys: a float that is a number, float('nan') or -inf
KeyNum(q) == [kind |-> "num", q |-> q]
KeyNaN == [kind |-> "nan", q |-> Zero]
KeyNegInf == [kind |-> "neginf", q |-> Zero]

\* a < b on floats: false as soon as one of them is NaN
FloatLess(a, b) ==
    /\ a.kind # "nan" /\ b.kind # "nan"
    /\ b.kind = "num"
    /\ (a.kind = "neginf" \/ QLess(a.q, b.q))

\* list.sort on fewer than 64 items [k |-> key, r |-> row] (CPython,
\* Objects/listobject.c): the leading run is found by count_run, reversed
\* when it descends, and the other items are inserted by binarysort; only
\* "<" is evaluated on the keys.
RECURSIVE count_run(_, _, _)
count_run(items, descending, n) ==
    IF n = Len(items) THEN n
    ELSE IF FloatLess(items[n + 1].k, items[n].k) = descending
    THEN count_run(items, descending, n + 1)
    ELSE n

\* the place of pivot in the sorted items l+1..r (l, r counted from 0)
RECURSIVE BinaryPlace(_, _, _, _)
BinaryPlace(items, pivot, l, r) ==
    IF l >= r THEN l
    ELSE IF FloatLess(pivot.k, items[l + ((r - l) \div 2) + 1].k)
    THEN BinaryPlace(items, pivot, l, l + ((r - l) \div 2))
    ELSE BinaryPlace(items, pivot, l + ((r - l) \div 2) + 1, r)

\* items with the item at start+1 moved to place+1
MoveTo(items, start, place) ==
    SubSeq(items, 1, place) \o <<items[start + 1]>> \o SubSeq(items, place + 1, start)
        \o SubSeq(items, start + 2, Len(items))

RECURSIVE binarysort(_, _)
binarysort(items, start) ==
    IF start >= Len(items) THEN items
    ELSE binarysort(MoveTo(items, start, BinaryPlace(items, items[start + 1], 0, start)),
                    start + 1)

\* the leading run of n items put in increasing order
RunAscending(items, descending, n) ==
    IF descending THEN Reverse(SubSeq(items, 1, n)) \o SubSeq(items, n + 1, Len(items))
    ELSE items

SortFrom(items, descending) ==
    binarysort(RunAscending(items, descending, count_run(items, descending, 2)),
               count_run(items, descending, 2))

list_sort(items) ==
    IF Len(items) < 2 THEN items ELSE SortFrom(items, FloatLess(items[2].k, items[1].k))

\* sorted(rows, key=..., reverse=True): the list is reversed, sorted, and
\* reversed again
SortedReverse(items) == Reverse(list_sort(Reverse(items)))

RowsOf(items) == [i \in DOMAIN items |-> items[i].r]

\* the key of a value under the order "numbers first, anything else as -inf"
GetvNaNAsNegInf(v) == IF IsNum(v) THEN KeyNum(v.q) ELSE KeyNegInf

\* getv of build_ranked: float(v) when v is an int or a float (NaN
\* included), else -inf
GetvOf(v) == IF IsNum(v) THEN KeyNum(v.q) ELSE IF IsNaN(v) THEN KeyNaN ELSE KeyNegInf
getv(row, key_col) == GetvOf(RowGet(row, key_col))

Ranked(ranked, topn) ==
    [islist |-> FALSE, top |-> Take(ranked, topn), bottom |-> Reverse(LastN(ranked, topn))]

\* build_ranked: the list [] without a key column, else top and bottom
NoRanking == [islist |-> TRUE, top |-> <<>>, bottom |-> <<>>]
build_ranked(rows, key_col, topn) ==
    IF ~key_col.has THEN NoRanking
    ELSE Ranked(RowsOf(SortedReverse([i \in DOMAIN rows |->
                                         [k |-> getv(rows[i], key_col.name), r |-> rows[i]]])),
                topn)

\* 0.02: "> 2 pts en absolu"
CtrRatioThreshold == Q(2, 100)

\* the comparison written ">="
ReachesThreshold(diff) == QLeq(CtrRatioThreshold, diff)

ExceedsThreshold(diff) == QLess(CtrRatioThreshold, diff)

\* line 186: |clicks / impressions - ctr| on the rows where it is defined
CtrDiffs(s_impr, s_clicks, s_ctr) ==
    LET defined == {i \in DOMAIN s_ctr.s :
                      /\ IsNum(s_clicks.s[i]) /\ IsNum(s_impr.s[i])
                      /\ s_impr.s[i].q # Zero /\ IsNum(s_ctr.s[i])}
        idx == SortSet(defined, LAMBDA a, b : a < b)
    IN  [k \in DOMAIN idx |->
            QAbs(QSub(QDiv(s_clicks.s[idx[k]].q, s_impr.s[idx[k]].q), s_ctr.s[idx[k]].q))]

\* lines 184-196: the dict "quality"
QualityOf(m, checked, diffs) ==
    [ctr_vs_ratio_warning |->
         \* nanmean over no value is nan, and nan > 0.02 is False
         checked /\ diffs # <<>> /\ ExceedsThreshold(QMean(diffs)),
     has_avg_abs_diff |-> checked,
     ctr_vs_ratio_avg_abs_diff |->
         IF checked /\ diffs # <<>> THEN OptNum(QMean(diffs)) ELSE OptNull,
     missing_columns |->
         (IF m.impressions.has THEN <<>> ELSE <<"Impressions">>)
         \o (IF m.clicks.has THEN <<>> ELSE <<"Clicks">>)
         \o (IF m.spend.has THEN <<>> ELSE <<"Spend">>)]

Quality(m, s_impr, s_clicks, s_ctr) ==
    QualityOf(m, m.ctr.has /\ m.clicks.has /\ m.impressions.has,
              IF m.ctr.has /\ m.clicks.has /\ m.impressions.has
              THEN CtrDiffs(s_impr, s_clicks, s_ctr) ELSE <<>>)

NoMetrics ==
    [impressions |-> NoCol, clicks |-> NoCol, ctr |-> NoCol, spend |-> NoCol,
     cpc |-> NoCol, cpm |-> NoCol, primary |-> NoCol]

AnalysisNone ==
    [done |-> FALSE, raised |-> FALSE, exc |-> "",
     inferred_metrics |-> NoMetrics,
     weighted |-> <<>>, dispersion_on_primary |-> NoDispersion,
     ranking_on_primary |-> NoRanking,
     data_quality |-> QualityOf(NoMetrics, FALSE, <<>>)]

\* lines 198-204: the returned dict
AnalysisOf(m, weighted, dispersion, ranking, quality) ==
    IF ranking.islist
    THEN \* {"metric": primary, **[]}: 'list' object is not a mapping
         [AnalysisNone EXCEPT !.done = TRUE, !.raised = TRUE, !.exc = "TypeError"]
    ELSE [done |-> TRUE, raised |-> FALSE, exc |-> "",
          inferred_metrics |-> m,
          weighted |-> weighted,
          dispersion_on_primary |-> dispersion,
          ranking_on_primary |-> ranking,
          data_quality |-> quality]

\* lines 127-196 on the series of the inferred columns
AnalysisOfSeries(rows, m, s_impr, s_clicks, s_ctr, s_spend) ==
    AnalysisOf(m, Weighted(s_impr, s_clicks, s_spend),
               Dispersion(col_series(rows, m.primary)),
               build_ranked(rows, m.primary, TopN),
               Quality(m, s_impr, s_clicks, s_ctr))

AnalysisOfMetrics(rows, m) ==
    AnalysisOfSeries(rows, m, col_series(rows, m.impressions), col_series(rows, m.clicks),
                     col_series(rows, m.ctr), col_series(rows, m.spend))

_analyze_payload(p) == AnalysisOfMetrics(p.rows, _infer_metrics_from_payload(p))

-----------------------------------------------------------------------------
(* diligence/insights.py: fallback_comment_on_pivot.  The text is a         *)
(* sequence of lines; a line keeps what it is made of, not its wording.     *)

Line(kind, col, x, y, label, v) ==
    [kind |-> kind, col |-> col, x |-> x, y |-> y, label |-> label, v |-> v]

\* "Aucune donnee dans le pivot."
NoDataText == <<Line("Aucune donnee dans le pivot.", <<>>, Zero, Zero, <<>>, NoneCell)>>
\* "**TL;DR** - Pivot non numerique : verifie les metriques choisies."
NonNumericText == <<Line("TL;DR pivot non numerique", <<>>, Zero, Zero, <<>>, NoneCell)>>

FallbackNone == [done |-> FALSE, raised |-> FALSE, exc |-> "", text |-> <<>>]
FallbackText(text) == [done |-> TRUE, raised |-> FALSE, exc |-> "", text |-> text]

RECURSIVE JoinTexts(_, _)
JoinTexts(parts, sep) ==
    IF parts = <<>> THEN <<>>
    ELSE IF Len(parts) = 1 THEN parts[1]
    ELSE parts[1] \o sep \o JoinTexts(Tail(parts), sep)

TopRowsShown == 3
LabelWidth == 120

\* " | ".join(str(v) for k, v in r.items() if k not in numeric_names)[:120]
RowLabel(p, row, numeric_names) ==
    LET keep == SelectSeq(p.columns, LAMBDA c : c \in DOMAIN row /\ c \notin numeric_names)
    IN  Take(JoinTexts([i \in DOMAIN keep |-> AsStr(row[keep[i]])], <<" ", "|", " ">>),
             LabelWidth)

\* r.get(first) or 0, on an int or a float: NaN is truthy and stays NaN
OrZero(c) == IF IsNum(c) THEN KeyNum(c.q) ELSE KeyNaN

\* the function without its first guard, "if not rows"
fallback_without_rows_guard(p) ==
    IF p.numeric_summary = <<>> THEN FallbackText(NonNumericText)
    ELSE FallbackText(
           <<Line("TL;DR", p.numeric_summary[1].col, p.numeric_summary[1].sum,
                  p.numeric_summary[1].mean, <<>>, NoneCell)>>
           \o <<Line("Recos", <<>>, Zero, Zero, <<>>, NoneCell)>>)

fallback_comment_on_pivot(p) ==
    LET rows == p.rows
        stats == p.numeric_summary
        first == stats[1].col
        numeric_rows == SelectSeq(rows, LAMBDA r : IsIntOrFloat(RowGet(r, first)))
        top_rows == Take(RowsOf(SortedReverse([i \in DOMAIN numeric_rows |->
                                                 [k |-> OrZero(RowGet(numeric_rows[i], first)),
                                                  r |-> numeric_rows[i]]])),
                         TopRowsShown)
        numeric_names == {stats[i].col : i \in DOMAIN stats}
    IN  IF rows = <<>> THEN FallbackText(NoDataText)
        ELSE IF stats = <<>> THEN FallbackText(NonNumericText)
        ELSE FallbackText(
               <<Line("TL;DR", first, stats[1].sum, stats[1].mean, <<>>, NoneCell)>>
               \o (IF top_rows = <<>> THEN <<>>
                   ELSE <<Line("Top lignes", first, Zero, Zero, <<>>, NoneCell)>>
                        \o [i \in DOMAIN top_rows |->
                              Line("-", first, Zero, Zero,
                                   RowLabel(p, top_rows[i], numeric_names),
                                   RowGet(top_rows[i], first))])
               \o <<Line("Recos", <<>>, Zero, Zero, <<>>, NoneCell)>>)

-----------------------------------------------------------------------------
(* The payloads the analysis engine and the fallback are exercised on *)

nCampaign == <<"C", "a", "m", "p", "a", "i", "g", "n">>
nImpressions == <<"I", "m", "p", "r", "e", "s", "s", "i", "o", "n", "s">>
nClicks == <<"C", "l", "i", "c", "k", "s">>
nCTR == <<"C", "T", "R">>
nSpend == <<"S", "p", "e", "n", "d">>
nRevenue == <<"R", "e", "v", "e", "n", "u", "e">>
nClickThroughRate == <<"C", "l", "i", "c", "k", "-", "T", "h", "r", "o", "u", "g", "h", " ", "R", "a", "t", "e">>

\* the cells a payload column may hold: None is a missing cell, NaN the
\* float of an empty pivot cell
ColValues(name) ==
    CASE name = nCampaign -> {Txt(<<"a">>)}
      [] name = nImpressions -> {NumI(0), NumI(50), NumI(100), NoneCell}
      [] name = nClicks -> {NumI(0), NumI(1), NoneCell}
      [] name = nCTR -> {Num(Q(3, 100))}
      [] name = nSpend -> {NumI(3)}
      [] name = nRevenue -> {NumI(3), NoneCell, NaN}
      [] name = nClickThroughRate -> {Num(Q(3, 100))}

Schemas ==
    {<<nImpressions, nClicks, nCTR>>, <<nImpressions, nClicks>>, <<nSpend, nClicks>>,
     <<nSpend, nImpressions>>, <<nSpend, nClicks, nImpressions>>, <<nClicks>>,
     <<nCampaign>>, <<nCampaign, nRevenue>>, <<nClickThroughRate, nImpressions>>}

PayloadRows(cols) ==
    {r \in [Range(cols) -> UNION {ColValues(c) : c \in Range(cols)}] :
        \A c \in Range(cols) : r[c] \in ColValues(c)}

\* lines 36-46 of pivot_to_payload: the summary of one numeric column
ColumnStats(rows, c) ==
    LET cells == SelectSeq([i \in DOMAIN rows |-> rows[i][c]], IsNum)
        vals == [i \in DOMAIN cells |-> cells[i].q]
        srt == StableSort(vals, QLess)
    IN  [col |-> c,
         sum |-> QSum(vals),
         mean |-> IF vals = <<>> THEN Zero ELSE QMean(vals),
         min |-> IF vals = <<>> THEN Zero ELSE srt[1],
         max |-> IF vals = <<>> THEN Zero ELSE srt[Len(srt)],
         non_null |-> Len(vals)]

\* the columns of numeric dtype: every cell a float
NumericColumns(cols, rows) ==
    SelectSeq(cols, LAMBDA c : \A i \in DOMAIN rows : IsIntOrFloat(rows[i][c]))

\* lines 36-53: the returned dict, numeric_cols being the columns of numeric
\* dtype
PayloadOf(cols, rows, numeric_cols) ==
    [shape |-> [rows |-> Len(rows), cols |-> Len(cols)],
     columns |-> cols,
     numeric_summary |-> [i \in DOMAIN numeric_cols |-> ColumnStats(rows, numeric_cols[i])],
     rows |-> rows]

MakePayload(cols, rows, with_stats) ==
    PayloadOf(cols, rows, IF with_stats THEN NumericColumns(cols, rows) ELSE <<>>)

\* the payloads pivot_to_payload makes, and payloads of at most one row that
\* come without a numeric summary
Payloads ==
    UNION {{MakePayload(cols, rows, TRUE) :
               rows \in SeqsUpTo(PayloadRows(cols), MaxPayloadRows)}
           \cup {MakePayload(cols, rows, FALSE) : rows \in SeqsUpTo(PayloadRows(cols), 1)} :
           cols \in Schemas}

InsightsIdle == payload = MakePayload(<<>>, <<>>, FALSE) /\ analysis = AnalysisNone
                /\ fb = FallbackNone

InsightsInit == payload \in Payloads /\ analysis = AnalysisNone /\ fb = FallbackNone

\* one call _analyze_payload(payload)
Analyze ==
    /\ ~analysis.done
    /\ analysis' = _analyze_payload(payload)
    /\ UNCHANGED <<df, call, result, payload, fb, session, page, series, converted, cut, prompt>>

\* one call fallback_comment_on_pivot(payload)
Fallback ==
    /\ ~fb.done
    /\ fb' = fallback_comment_on_pivot(payload)
    /\ UNCHANGED <<df, call, result, payload, analysis, session, page, series, converted, cut, prompt>>

InsightsNext == Analyze \/ Fallback

-----------------------------------------------------------------------------
(* diligence/insights.py: pivot_to_payload, _shrink_payload_for_prompt and  *)
(* call_openai_comment_on_pivot                                             *)

MaxRowsDefault == 1000

\* str.strip() on spaces
RECURSIVE LStrip(_)
LStrip(s) == IF s # <<>> /\ Head(s) = " " THEN LStrip(Tail(s)) ELSE s
Strip(s) == Reverse(LStrip(Reverse(LStrip(s))))

\* line 31: " | ".join(map(str, col)).strip() for a multi-level label, the
\* label itself for a plain one
FlatColumnName(label) ==
    IF Len(label) = 1 THEN AsStr(label[1])
    ELSE Strip(JoinTexts([i \in DOMAIN label |-> AsStr(label[i])], <<" ", "|", " ">>))

nIndex == <<"i", "n", "d", "e", "x">>

\* DataFrame.reset_index(): the index levels become the first columns
IndexColumnNames(pvt) == IF pvt.names = <<>> THEN <<nIndex>> ELSE pvt.names

KeyCell(row, i) == IF i \in DOMAIN row.key THEN row.key[i] ELSE NaN

\* one record of tbl.to_dict(orient="records")
FlatRecord(r, inames, vnames) ==
    [c \in Range(inames \o vnames) |->
        IF c \in Range(inames) THEN KeyCell(r, IndexOf(inames, c))
        ELSE r.vals[IndexOf(vnames, c)]]

\* a serializer that keeps the last max_rows rows
FlatPayloadTail(pvt, inames, vnames, max_rows) ==
    PayloadOf(inames \o vnames,
              LastN([i \in DOMAIN pvt.rows |-> FlatRecord(pvt.rows[i], inames, vnames)],
                    max_rows),
              vnames)

\* lines 33-53: the records of the flattened frame, cut to max_rows.  The
\* index columns hold the labels "Total" / "Sous-total" and are of object
\* dtype, the value columns are numeric, whatever rows are kept.
FlatPayload(pvt, inames, vnames, max_rows) ==
    PayloadOf(inames \o vnames,
              IF Len(pvt.rows) > max_rows
              THEN Take([i \in DOMAIN pvt.rows |-> FlatRecord(pvt.rows[i], inames, vnames)],
                        max_rows)
              ELSE [i \in DOMAIN pvt.rows |-> FlatRecord(pvt.rows[i], inames, vnames)],
              vnames)

pivot_to_payload(pvt, max_rows) ==
    FlatPayload(pvt, IndexColumnNames(pvt),
                [j \in DOMAIN pvt.columns |-> FlatColumnName(pvt.columns[j])], max_rows)

HeadRows == 25
TailRows == 10
MaxPromptColumns == 60

_shrink_payload_for_prompt(p, head, tail) ==
    [shape |-> p.shape,
     columns |-> Take(p.columns, MaxPromptColumns),
     numeric_summary |-> p.numeric_summary,
     rows |-> Take(p.rows, head)
              \o (IF Len(p.rows) > head + tail THEN LastN(p.rows, tail) ELSE <<>>)]

\* the environment of the external generator: is the openai library
\* importable, is OPENAI_API_KEY set, and what the API call does
ApiOutcomes == {"ok", "error", "no_content"}
Envs == [lib : BOOLEAN, key : BOOLEAN, api : ApiOutcomes]

Generated(text) == [raised |-> FALSE, exc |-> "", text |-> text]
GenRaised(exc) == [raised |-> TRUE, exc |-> exc, text |-> <<>>]

\* the answer of the external model: its wording is not modelled
OpenAIText == <<Line("openai", <<>>, Zero, Zero, <<>>, NoneCell)>>

_get_client(env) ==
    IF ~env.lib THEN GenRaised("RuntimeError")           \* "Lib openai absente."
    ELSE IF ~env.key THEN GenRaised("RuntimeError")      \* "OPENAI_API_KEY manquante."
    ELSE Generated(<<>>)

\* lines 207-268 once the client, the slim payload and the analysis are there
CallOutcome(client, slim, an, env) ==
    IF client.raised THEN client
    ELSE IF an.raised THEN GenRaised(an.exc)
    ELSE IF env.api = "error" THEN GenRaised("APIError")
    ELSE IF env.api = "no_content" THEN GenRaised("AttributeError") \* None.strip()
    ELSE Generated(OpenAIText)

call_openai_comment_on_pivot(p, env) ==
    CallOutcome(_get_client(env), _shrink_payload_for_prompt(p, HeadRows, TailRows),
                _analyze_payload(p), env)

-----------------------------------------------------------------------------
(* app.py: the wizard.  Every action is one run of the script for the step  *)
(* the sidebar selects; session is st.session_state, page what the run      *)
(* rendered.                                                                *)

nChannel == <<"C", "h", "a", "n", "n", "e", "l">>

SRow(camp, chan, impr, clicks) ==
    (nCampaign :> camp) @@ (nChannel :> chan) @@ (nImpressions :> impr) @@ (nClicks :> clicks)

\* the files a user uploads: two campaigns tables, the second without any
\* click count, and a spend table
SessionTables ==
    {[columns |-> <<nCampaign, nChannel, nImpressions, nClicks>>,
      rows |-> <<SRow(Txt(<<"a">>), Txt(<<"s">>), NumI(50), NumI(1)),
                 SRow(Txt(<<"a">>), Txt(<<"d">>), NumI(100), NumI(1))>>],
     [columns |-> <<nCampaign, nChannel, nImpressions, nClicks>>,
      rows |-> <<SRow(Txt(<<"b">>), Txt(<<"s">>), NumI(50), NaN)>>],
     [columns |-> <<nCampaign, nSpend>>,
      rows |-> <<(nCampaign :> Txt(<<"a">>)) @@ (nSpend :> NumI(3)),
                 (nCampaign :> Txt(<<"b">>)) @@ (nSpend :> Txt(<<"1", " ", "0", "0", "0">>))>>]}

SessionIndexChoices == {<<>>, <<nCampaign>>, <<nCampaign, nChannel>>}
SessionValueChoices == {<<>>, <<nClicks>>, <<nImpressions, nClicks>>, <<nSpend>>}
UploadErrors == {"Le fichier est vide.", "On dirait un Excel renomme en .csv.",
                 "Separateur inconnu (utilise , ou ;)"}

NoTable == [columns |-> <<>>, rows |-> <<>>]
NoPayload == MakePayload(<<>>, <<>>, FALSE)

PageBlank ==
    [step |-> 0, shown |-> "", msg |-> "", exc |-> "",
     gen |-> FALSE, failure |-> "",
     payload |-> NoPayload, fallback_called |-> FALSE, fallback_payload |-> NoPayload,
     comment_shown |-> FALSE, comment |-> <<>>, warning |-> ""]

SessionIdle ==
    /\ session = [has_df |-> FALSE, df |-> NoTable, has_pivot |-> FALSE, pivot |-> EmptyPivot]
    /\ page = PageBlank

\* lines 30-37
SessionInit == SessionIdle

\* step 1, lines 78-101: load_table succeeded
Upload(t) ==
    /\ session' = [session EXCEPT !.has_df = TRUE, !.df = t]
    /\ page' = [PageBlank EXCEPT !.step = 1, !.shown = "loaded"]
    /\ UNCHANGED <<df, call, result, payload, analysis, fb, series, converted, cut, prompt>>

\* a step 1 that stores an empty table before load_table raises
UploadRejectedAfterStore(err) ==
    /\ page' = [PageBlank EXCEPT !.step = 1, !.shown = "error", !.msg = err]
    /\ session' = [session EXCEPT !.has_df = TRUE, !.df = NoTable]
    /\ UNCHANGED <<df, call, result, payload, analysis, fb, series, converted, cut, prompt>>

\* step 1, lines 103-104: load_table raised, the error is displayed
UploadRejected(err) ==
    /\ page' = [PageBlank EXCEPT !.step = 1, !.shown = "error", !.msg = err]
    /\ UNCHANGED <<df, call, result, payload, analysis, fb, session, series, converted, cut, prompt>>

\* step 2, lines 118-119
Step2NoTable ==
    /\ ~session.has_df
    /\ page' = [PageBlank EXCEPT !.step = 2, !.shown = "need_upload"]
    /\ UNCHANGED <<df, call, result, payload, analysis, fb, session, series, converted, cut, prompt>>

\* step 2, lines 175-212: what is rendered and stored for a result
Step2Outcome(res) ==
    IF res.raised
    THEN /\ page' = [PageBlank EXCEPT !.step = 2, !.shown = "exception", !.exc = res.exc]
         /\ UNCHANGED session
    ELSE /\ page' = [PageBlank EXCEPT !.step = 2, !.msg = res.msg,
                        !.shown = IF res.null THEN "guidance" ELSE "pivot"]
         /\ session' = IF res.null THEN session
                       ELSE [session EXCEPT !.has_pivot = TRUE, !.pivot = res.pvt]

\* step 2, lines 120-212: columns_cols is always []
Step2Build(ic, vc, agg) ==
    /\ session.has_df
    /\ Range(ic) \cup Range(vc) \subseteq Range(session.df.columns)
    /\ Step2Outcome(build_pivot(session.df.rows, ic, <<>>, vc, agg))
    /\ UNCHANGED <<df, call, result, payload, analysis, fb, series, converted, cut, prompt>>

\* step 3, lines 223-225
Step3NoPivot ==
    /\ ~session.has_pivot
    /\ page' = [PageBlank EXCEPT !.step = 3, !.shown = "need_pivot"]
    /\ UNCHANGED <<df, call, result, payload, analysis, fb, session, series, converted, cut, prompt>>

\* a step 3 that does not look whether a pivot is stored
Step3ViewUnguarded ==
    /\ page' = [PageBlank EXCEPT !.step = 3, !.shown = "pivot",
                   !.payload = pivot_to_payload(session.pivot, MaxRowsDefault)]
    /\ UNCHANGED <<df, call, result, payload, analysis, fb, session, series, converted, cut, prompt>>

\* step 3 without a click on the button: the pivot and its payload
Step3View ==
    /\ session.has_pivot
    /\ page' = [PageBlank EXCEPT !.step = 3, !.shown = "pivot",
                   !.payload = pivot_to_payload(session.pivot, MaxRowsDefault)]
    /\ UNCHANGED <<df, call, result, payload, analysis, fb, session, series, converted, cut, prompt>>

\* the classes "except Exception" catches
ExceptionClasses == {"RuntimeError", "TypeError", "ValueError", "IndexError",
                     "AttributeError", "APIError"}

\* a handler written "except RuntimeError"
CaughtRuntimeErrorOnly(exc) == exc = "RuntimeError"

\* line 268: except Exception as e
CaughtByHandler(exc) == exc \in ExceptionClasses

\* lines 257-276: what is rendered for the generator's outcome; fbk is
\* what fallback_comment_on_pivot(p) does when it is called
RenderComment(pg, p, out, fbk) ==
    IF ~out.raised
    THEN [pg EXCEPT !.shown = "comment", !.comment_shown = TRUE, !.comment = out.text]
    ELSE IF ~CaughtByHandler(out.exc)
    THEN [pg EXCEPT !.shown = "exception", !.exc = out.exc, !.failure = out.exc]
    ELSE IF fbk.raised
    THEN [pg EXCEPT !.shown = "exception", !.exc = fbk.exc, !.failure = out.exc,
                    !.fallback_called = TRUE, !.fallback_payload = p]
    ELSE [pg EXCEPT !.shown = "comment", !.comment_shown = TRUE, !.comment = fbk.text,
                    !.failure = out.exc,
                    !.fallback_called = TRUE, !.fallback_payload = p,
                    !.warning = out.exc]

\* lines 257-276: what the click on "Generer le commentaire" renders
GenerateComment(pg, p, use_openai, env) ==
    RenderComment(pg, p,
                  IF use_openai THEN call_openai_comment_on_pivot(p, env)
                  ELSE GenRaised("RuntimeError"),           \* "OpenAI desactive."
                  fallback_comment_on_pivot(p))

\* lines 237-276 on the payload of the stored pivot
Step3Click(p, use_openai, env) ==
    page' = GenerateComment([PageBlank EXCEPT !.step = 3, !.payload = p, !.gen = TRUE],
                            p, use_openai, env)

\* step 3 with a click on the button
Step3Generate(use_openai, env) ==
    /\ session.has_pivot
    /\ Step3Click(pivot_to_payload(session.pivot, MaxRowsDefault), use_openai, env)
    /\ UNCHANGED <<df, call, result, payload, analysis, fb, session, series, converted, cut, prompt>>

\* step 4, lines 287-288
Step4NoPivot ==
    /\ ~session.has_pivot
    /\ page' = [PageBlank EXCEPT !.step = 4, !.shown = "need_pivot"]
    /\ UNCHANGED <<df, call, result, payload, analysis, fb, session, series, converted, cut, prompt>>

\* step 4, lines 289-303
Step4Export ==
    /\ session.has_pivot
    /\ page' = [PageBlank EXCEPT !.step = 4, !.shown = "export"]
    /\ UNCHANGED <<df, call, result, payload, analysis, fb, session, series, converted, cut, prompt>>

SessionNext ==
    \/ \E t \in SessionTables : Upload(t)
    \/ \E err \in UploadErrors : UploadRejected(err)
    \/ Step2NoTable
    \/ \E ic \in SessionIndexChoices, vc \in SessionValueChoices, agg \in Aggregators :
          Step2Build(ic, vc, agg)
    \/ Step3NoPivot
    \/ Step3View
    \/ \E use_openai \in BOOLEAN, env \in Envs : Step3Generate(use_openai, env)
    \/ Step4NoPivot
    \/ Step4Export

-----------------------------------------------------------------------------
(* formatters.py: to_num applied to a series, then to its own result *)

MaxSeriesLen == 2

\* the elements of a series: numbers, NaN, None, plain text, the empty
\* text, "1 2,5", "1<nbsp>000", "-3", "1,255", "1.2,5"
SeriesCells ==
    {NumI(1), Num(Q(5, 2)), NaN, NoneCell, Txt(<<"x">>), Txt(<<>>),
     Txt(<<"1", " ", "2", ",", "5">>), Txt(<<"1", "nbsp", "0", "0", "0">>),
     Txt(<<"-", "3">>), Txt(<<"1", ",", "2", "5", "5">>), Txt(<<"1", ".", "2", ",", "5">>)}

NoNums == [applied |-> 0, once |-> <<>>, twice |-> <<>>]

ToNumIdle == series = <<>> /\ converted = NoNums

ToNumInit == series \in SeqsUpTo(SeriesCells, MaxSeriesLen) /\ converted = NoNums

\* to_num(series)
ToNum ==
    /\ converted.applied = 0
    /\ converted' = [converted EXCEPT !.applied = 1, !.once = to_num(series)]
    /\ UNCHANGED <<df, call, result, payload, analysis, fb, session, page, series,
                   cut, prompt>>

\* to_num(to_num(series))
ToNumAgain ==
    /\ converted.applied = 1
    /\ converted' = [converted EXCEPT !.applied = 2, !.twice = to_num(converted.once)]
    /\ UNCHANGED <<df, call, result, payload, analysis, fb, session, page, series,
                   cut, prompt>>

ToNumNext == ToNum \/ ToNumAgain

-----------------------------------------------------------------------------
(* insights.py: pivot_to_payload on the pivots build_pivot returns *)

MaxRowsTried == 5

\* max_rows is -1 as long as pivot_to_payload was not called
SerializeIdle == cut = -1

SerializeRows ==
    {TableRow(a, Txt(<<"b">>), Txt(<<"c">>), m) :
        a \in {Txt(<<"x">>), Txt(<<"y">>)}, m \in {NumI(1), Txt(<<"1", ",", "5">>)}}

SerializeInit ==
    /\ df \in SeqsUpTo(SerializeRows, MaxTableRows)
    /\ call = NoCall /\ result = ReturnedNone("")

\* pivot_to_payload(pvt, max_rows) on the pivot of the last build_pivot call
Serialize(mr) ==
    /\ call.made /\ ~result.raised /\ ~result.null
    /\ cut = -1
    /\ cut' = mr
    /\ payload' = pivot_to_payload(result.pvt, mr)
    /\ UNCHANGED <<df, call, result, analysis, fb, session, page, series, converted, prompt>>

SerializeNext ==
    \/ \E ic \in IndexChoices, cc \in ColumnsChoices, agg \in {"sum", "count"} :
          BuildPivot(ic, cc, <<colM>>, agg)
    \/ \E mr \in (0..MaxRowsTried) \cup {MaxRowsDefault} : Serialize(mr)

-----------------------------------------------------------------------------
(* insights.py: _shrink_payload_for_prompt as call_openai_comment_on_pivot  *)
(* calls it, on payloads of many rows                                       *)

MaxShrinkRows == 37

NoSlim == [done |-> FALSE, p |-> NoPayload]

ShrinkIdle == prompt = NoSlim

\* payloads of 0..MaxShrinkRows rows, the i-th row holding Clicks = i * k
LongPayloads ==
    {MakePayload(<<nClicks>>, [i \in 1..n |-> (nClicks :> NumI(i * k))], FALSE) :
        n \in 0..MaxShrinkRows, k \in 1..3}

ShrinkInit == payload \in LongPayloads /\ analysis = AnalysisNone /\ fb = FallbackNone

\* line 214: slim = _shrink_payload_for_prompt(payload, head=25, tail=10)
Shrink ==
    /\ ~prompt.done
    /\ prompt' = [done |-> TRUE, p |-> _shrink_payload_for_prompt(payload, HeadRows, TailRows)]
    /\ UNCHANGED <<df, call, result, payload, analysis, fb, session, page, series, converted,
                   cut>>

ShrinkNext == Shrink

-----------------------------------------------------------------------------
(* Specifications *)

\* the wizard session of app.py
OthersIdle == ToNumIdle /\ SerializeIdle /\ ShrinkIdle

Init == PivotIdle /\ InsightsIdle /\ SessionInit /\ OthersIdle
Next == SessionNext
Spec == Init /\ [][Next]_vars

\* build_pivot on every table and every call
InitPivot == PivotInit /\ InsightsIdle /\ SessionIdle /\ OthersIdle
SpecPivot == InitPivot /\ [][PivotNext]_vars

\* the analysis engine and the fallback generator on every payload
InitInsights == PivotIdle /\ InsightsInit /\ SessionIdle /\ OthersIdle
SpecInsights == InitInsights /\ [][InsightsNext]_vars

\* to_num on every series, twice
InitToNum ==
    PivotIdle /\ InsightsIdle /\ SessionIdle /\ ToNumInit /\ SerializeIdle /\ ShrinkIdle
SpecToNum == InitToNum /\ [][ToNumNext]_vars

\* build_pivot, then pivot_to_payload with every max_rows
InitSerialize ==
    SerializeInit /\ InsightsIdle /\ SessionIdle /\ ToNumIdle /\ SerializeIdle /\ ShrinkIdle
SpecSerialize == InitSerialize /\ [][SerializeNext]_vars

\* _shrink_payload_for_prompt on payloads of up to MaxShrinkRows rows
InitShrink ==
    PivotIdle /\ ShrinkInit /\ SessionIdle /\ ToNumIdle /\ SerializeIdle /\ ShrinkIdle
SpecShrink == InitShrink /\ [][ShrinkNext]_vars

-----------------------------------------------------------------------------
(* Properties of build_pivot, under SpecPivot *)

\* C1: for every table, valid specification and aggregator, the Total row
\* of the returned pivot holds, in each column, the sum of that column over
\* the rows that are neither the Total row nor a Subtotal row.
C1_TotalIsSumOfOtherRows ==
    (call.made /\ ~result.raised /\ ~result.null) =>
        LET rows == result.pvt.rows
            members == SelectSeq(rows, LAMBDA r : r.kind = "member")
        IN  /\ rows # <<>>
            /\ rows[Len(rows)].kind = "total"
            /\ rows[Len(rows)].vals = ColumnSums(members, Len(result.pvt.columns))

\* C2: in a two-level row-group pivot without column group, each Subtotal
\* row is the column-wise sum of the member rows of its top-level group, and
\* the grand Total is the column-wise sum of all the member rows: no
\* Subtotal row counted, no member row left out.
C2_SubtotalsAndTotalOverMembers ==
    (/\ call.made /\ Len(call.index_cols) = 2 /\ call.columns_cols = <<>>
     /\ call.value_cols # <<>> /\ ~result.raised) =>
        LET rows == result.pvt.rows
            ncols == Len(result.pvt.columns)
            members == SelectSeq(rows, LAMBDA r : r.kind = "member")
            group(g) == SelectSeq(members, LAMBDA r : r.key[1] = g)
        IN  /\ \A i \in DOMAIN rows :
                  rows[i].kind = "subtotal" =>
                      rows[i].vals = ColumnSums(group(rows[i].key[1]), ncols)
            /\ \A i \in DOMAIN members :
                  \E j \in DOMAIN rows : /\ rows[j].kind = "subtotal"
                                         /\ rows[j].key[1] = members[i].key[1]
            /\ rows # <<>>
            /\ rows[Len(rows)].kind = "total"
            /\ rows[Len(rows)].vals = ColumnSums(members, ncols)

\* C3: for every valid specification, with one, two, three or more
\* row-group levels, build_pivot does not raise and returns a non-null pivot
\* with an empty message whose last row is the Total row.
C3_ValidSpecificationGivesPivotWithTotal ==
    (/\ call.made /\ call.value_cols # <<>>
     /\ (call.index_cols # <<>> \/ call.columns_cols # <<>>)) =>
        /\ ~result.raised
        /\ ~result.null
        /\ result.msg = ""
        /\ result.pvt.rows # <<>>
        /\ result.pvt.rows[Len(result.pvt.rows)].kind = "total"

\* C4: build_pivot returns (null, non-empty reason) without raising exactly
\* when both group lists are empty or the metric list is empty; in every
\* other case the message is empty and the pivot non-null; a non-null pivot
\* never comes with a non-empty message.
C4_NullWithReasonExactlyOnGuards ==
    call.made =>
        LET guarded == (call.index_cols = <<>> /\ call.columns_cols = <<>>)
                       \/ call.value_cols = <<>>
        IN  /\ guarded => (~result.raised /\ result.null /\ result.msg # "")
            /\ ~guarded => (~result.raised /\ ~result.null /\ result.msg = "")
            /\ ~result.null => result.msg = ""

-----------------------------------------------------------------------------
(* Properties of step 3 of the wizard, under Spec *)

\* C5: when a narrative is requested in step 3, every failure of the
\* external generator is caught in the request and followed by a call to
\* the fallback generator with the same payload; the request always ends
\* with a comment displayed and the failure does not propagate.
C5_GeneratorFailureEndsInFallbackComment ==
    (page.step = 3 /\ page.gen) =>
        /\ page.shown = "comment"
        /\ page.comment_shown
        /\ page.comment # <<>>
        /\ page.failure # "" =>
              /\ page.fallback_called
              /\ page.fallback_payload = page.payload
              /\ page.warning = page.failure

\* a request in which the API call failed and the fallback comment is shown
C5_Witness ==
    /\ page.step = 3 /\ page.gen
    /\ page.failure = "APIError"
    /\ page.fallback_called
    /\ page.fallback_payload = page.payload
    /\ page.payload.rows # <<>>
    /\ page.comment_shown

-----------------------------------------------------------------------------
(* Properties of the fallback and of the analysis engine, under SpecInsights *)

\* C6: fallback_comment_on_pivot never raises and returns non-empty text for
\* every payload; for a payload with zero rows the text is the literal
\* no-data message, whatever the numeric summary holds.
C6_FallbackAlwaysAnswers ==
    fb.done =>
        /\ ~fb.raised
        /\ fb.text # <<>>
        /\ payload.rows = <<>> => fb.text = NoDataText

\* a payload without rows but with a numeric summary, answered by the
\* no-data message
C6_Witness ==
    /\ fb.done
    /\ payload.rows = <<>>
    /\ payload.numeric_summary # <<>>
    /\ fb.text = NoDataText

\* C7: when an impressions and a clicks column are inferred and the sum of
\* impressions is positive, the weighted click-rate is sum(clicks) /
\* sum(impressions), missing cells skipped, and never the mean of the
\* per-row ratios.
C7_WeightedCtrIsRatioOfSums ==
    LET m == _infer_metrics_from_payload(payload)
        sum(col) == NanSum([i \in DOMAIN payload.rows |->
                               NumericCell(RowGet(payload.rows[i], col.name))])
    IN  (/\ analysis.done /\ m.impressions.has /\ m.clicks.has
         /\ QLess(Zero, sum(m.impressions))) =>
            /\ ~analysis.raised
            /\ "ctr_weighted" \in DOMAIN analysis.weighted
            /\ analysis.weighted["ctr_weighted"]
                   = OptNum(QDiv(sum(m.clicks), sum(m.impressions)))

\* two rows of unequal impressions, 50 and 100, with one click each: the
\* ratio of sums is 2/150 and the mean of the ratios 3/200
C7_Witness ==
    /\ analysis.done /\ ~analysis.raised
    /\ Len(payload.rows) = 2
    /\ nImpressions \in DOMAIN payload.rows[1] /\ nClicks \in DOMAIN payload.rows[1]
    /\ payload.rows[1][nImpressions] = NumI(50) /\ payload.rows[1][nClicks] = NumI(1)
    /\ payload.rows[2][nImpressions] = NumI(100) /\ payload.rows[2][nClicks] = NumI(1)
    /\ "ctr_weighted" \in DOMAIN analysis.weighted
    /\ analysis.weighted["ctr_weighted"] = OptNum(Q(2, 150))
    /\ analysis.weighted["ctr_weighted"] # OptNum(Q(3, 200))

\* C8: each of the three weighted ratios has an entry in the result: null
\* when its denominator sum is zero or one of its two columns is absent, the
\* ratio of sums otherwise; no entry is ever lacking.
C8_ThreeWeightedEntries ==
    LET m == _infer_metrics_from_payload(payload)
        sum(col) == NanSum([i \in DOMAIN payload.rows |->
                               NumericCell(RowGet(payload.rows[i], col.name))])
        ratio(num, den, scale) ==
            IF num.has /\ den.has /\ QLess(Zero, sum(den))
            THEN OptNum(QMul(QDiv(sum(num), sum(den)), QInt(scale)))
            ELSE OptNull
    IN  (analysis.done /\ ~analysis.raised) =>
            /\ {"ctr_weighted", "cpc_weighted", "cpm_weighted"}
                   \subseteq DOMAIN analysis.weighted
            /\ analysis.weighted["ctr_weighted"] = ratio(m.clicks, m.impressions, 1)
            /\ analysis.weighted["cpc_weighted"] = ratio(m.spend, m.clicks, 1)
            /\ analysis.weighted["cpm_weighted"] = ratio(m.spend, m.impressions, 1000)

\* C9: with a click-rate, a clicks and an impressions column inferred, the
\* warning flag is true exactly when the mean of |clicks / impressions -
\* click-rate| over the rows where it is defined is strictly above 0.02; it
\* is false at 0.02 and below, and false when one of the columns is absent.
C9_WarningIffMeanGapAboveThreshold ==
    LET m == _infer_metrics_from_payload(payload)
        cell(i, col) == NumericCell(RowGet(payload.rows[i], col.name))
        defined == {i \in DOMAIN payload.rows :
                      /\ IsNum(cell(i, m.clicks)) /\ IsNum(cell(i, m.impressions))
                      /\ cell(i, m.impressions).q # Zero /\ IsNum(cell(i, m.ctr))}
        gap(i) == QAbs(QSub(QDiv(cell(i, m.clicks).q, cell(i, m.impressions).q),
                            cell(i, m.ctr).q))
        idx == SortSet(defined, LAMBDA a, b : a < b)
        mean == QMean([k \in DOMAIN idx |-> gap(idx[k])])
    IN  (analysis.done /\ ~analysis.raised) =>
            IF m.ctr.has /\ m.clicks.has /\ m.impressions.has
            THEN analysis.data_quality.ctr_vs_ratio_warning
                     <=> (defined # {} /\ QLess(Q(2, 100), mean))
            ELSE ~analysis.data_quality.ctr_vs_ratio_warning

\* one row, 1 click for 100 impressions and a stated click-rate of 0.03: the
\* gap is 0.02 exactly and the flag is false
C9_Witness ==
    /\ analysis.done /\ ~analysis.raised
    /\ Len(payload.rows) = 1
    /\ payload.columns = <<nImpressions, nClicks, nCTR>>
    /\ payload.rows[1][nImpressions] = NumI(100)
    /\ payload.rows[1][nClicks] = NumI(1)
    /\ payload.rows[1][nCTR] = Num(Q(3, 100))
    /\ analysis.data_quality.ctr_vs_ratio_avg_abs_diff = OptNum(Q(2, 100))
    /\ ~analysis.data_quality.ctr_vs_ratio_warning

\* C10: _analyze_payload never raises, whatever metrics are missing: without
\* any primary metric, or with zero rows, it still returns its result.
C10_AnalysisNeverRaises ==
    analysis.done => ~analysis.raised

\* C11: to_num is total and idempotent.  Once applied, the result has one
\* element per element of the series, each a number or the missing marker,
\* missing elements stay missing; applied to its own output it returns that
\* output.
C11_ToNumTotalAndIdempotent ==
    /\ converted.applied >= 1 =>
          /\ Len(converted.once) = Len(series)
          /\ \A i \in DOMAIN series :
                /\ converted.once[i].t \in {"num", "nan"}
                /\ series[i].t \in {"nan", "none"} => converted.once[i] = NaN
                /\ series[i].t = "num" => converted.once[i] = series[i]
    /\ converted.applied = 2 => converted.twice = converted.once

\* to_num ran twice on a series holding "1 2,5", read as 12.5
C11_Witness ==
    /\ converted.applied = 2
    /\ \E i \in DOMAIN series :
          /\ series[i] = Txt(<<"1", " ", "2", ",", "5">>)
          /\ converted.once[i] = Num(Q(25, 2))
          /\ converted.twice[i] = Num(Q(25, 2))

\* the payload p holds the first min(n, mr) rows of the pivot pvt, cell by
\* cell and in the pivot's order
HoldsFirstRows(p, pvt, inames, mr) ==
    /\ Len(p.rows) = Min2(Len(pvt.rows), mr)
    /\ Len(p.columns) = Len(inames) + Len(pvt.columns)
    /\ \A i \in DOMAIN p.rows :
          /\ \A l \in DOMAIN inames : p.rows[i][p.columns[l]] = KeyCell(pvt.rows[i], l)
          /\ \A j \in DOMAIN pvt.columns :
                p.rows[i][p.columns[Len(inames) + j]] = pvt.rows[i].vals[j]

\* the numeric summary of p describes the numbers of the rows p holds
SummaryOfHeldRows(p) ==
    \A k \in DOMAIN p.numeric_summary :
        LET st == p.numeric_summary[k]
            held == {i \in DOMAIN p.rows : IsNum(p.rows[i][st.col])}
        IN  /\ st.col \in Range(p.columns)
            /\ st.non_null = Cardinality(held)
            /\ st.sum = QSum([i \in DOMAIN p.rows |->
                                 IF i \in held THEN p.rows[i][st.col].q ELSE Zero])
            /\ \A i \in held : QLeq(st.min, p.rows[i][st.col].q) /\ QLeq(p.rows[i][st.col].q, st.max)
            /\ held # {} => \E i \in held : st.min = p.rows[i][st.col].q
            /\ held # {} => \E i \in held : st.max = p.rows[i][st.col].q

\* C12: the payload of pivot_to_payload(pvt, max_rows) holds exactly the
\* first min(n, max_rows) rows of the un-indexed pivot in their order, its
\* shape is the length of its rows and of its columns, and its numeric
\* summary is computed from the rows it holds only.
C12_PayloadIsBoundedPrefix ==
    cut >= 0 =>
        /\ HoldsFirstRows(payload, result.pvt, IndexColumnNames(result.pvt), cut)
        /\ payload.shape.rows = Len(payload.rows)
        /\ payload.shape.cols = Len(payload.columns)
        /\ SummaryOfHeldRows(payload)

\* a pivot of three rows or more cut to two rows, the Total row being left
\* out of the rows and of the sums
C12_Witness ==
    /\ cut = 2
    /\ Len(result.pvt.rows) >= 3
    /\ Len(payload.rows) = 2
    /\ \E k \in DOMAIN payload.numeric_summary :
          payload.numeric_summary[k].sum = QInt(2)

\* the table rows with a missing cell in a row-group column and a number in
\* the metric column
RowsOfMissingGroup(table, index_cols) ==
    {i \in DOMAIN table : /\ \E k \in Range(index_cols) : ~NotNa(table[i][k])
                          /\ ToNumCell(table[i][colM]).t = "num"}

\* C13: in a returned pivot every table row with a missing (NaN) value in a
\* row-group column belongs to a group of its own that is a row of the
\* pivot, and the Total row of a one-level count counts it.
C13_MissingKeysFormOwnGroup ==
    (/\ call.made /\ ~result.raised /\ ~result.null
     /\ call.index_cols # <<>> /\ call.value_cols = <<colM>>) =>
        /\ \A i \in RowsOfMissingGroup(df, call.index_cols) :
              \E j \in DOMAIN result.pvt.rows :
                  /\ result.pvt.rows[j].kind = "member"
                  /\ result.pvt.rows[j].key = RowKey(df[i], call.index_cols)
        /\ (/\ call.agg_choice = "count" /\ call.index_cols = <<colA>>
            /\ call.columns_cols = <<>> /\ Len(result.pvt.columns) = 1) =>
              result.pvt.rows[Len(result.pvt.rows)].vals[1]
                  = NumI(Cardinality({i \in DOMAIN df : NotNa(df[i][colM])}))

\* C14: a run of step 1 whose upload is rejected by load_table (empty file,
\* Excel bytes under a .csv name, no delimiter found) shows one of the
\* user-facing messages and leaves the session state as it was.
C14_RejectedUploadCommitsNothing ==
    [][(page'.step = 1 /\ page'.shown = "error") =>
          /\ page'.msg \in UploadErrors
          /\ page'.msg # ""
          /\ session' = session]_vars

\* an upload was rejected while a table and a pivot were stored: both are kept
C14_Witness ==
    /\ page.step = 1 /\ page.shown = "error" /\ page.msg = "Le fichier est vide."
    /\ session.has_df /\ session.has_pivot
    /\ session.df # NoTable

\* the rows S are in descending order of the column col, a value that is no
\* number (None, text, NaN) counting as -inf
DescendingBy(S, col) ==
    \A i \in 1..(Len(S) - 1) :
        ~FloatLess(GetvNaNAsNegInf(RowGet(S[i], col)), GetvNaNAsNegInf(RowGet(S[i + 1], col)))

\* C15: with a primary metric, top is the first five rows of the payload in
\* descending order of the primary metric, rows whose value is None, text or
\* NaN coming after every row with a number; bottom is the last five rows of
\* that same arrangement, read in one direction or the other.
C15_RankingPutsNonNumericLast ==
    (analysis.done /\ ~analysis.raised /\ analysis.inferred_metrics.primary.has) =>
        \E f \in Permutations(DOMAIN payload.rows) :
            /\ DescendingBy([i \in DOMAIN payload.rows |-> payload.rows[f[i]]],
                            analysis.inferred_metrics.primary.name)
            /\ analysis.ranking_on_primary.top
                  = Take([i \in DOMAIN payload.rows |-> payload.rows[f[i]]], TopN)
            /\ analysis.ranking_on_primary.bottom
                  \in {LastN([i \in DOMAIN payload.rows |-> payload.rows[f[i]]], TopN),
                       Reverse(LastN([i \in DOMAIN payload.rows |-> payload.rows[f[i]]], TopN))}

\* C16: the prompt sample never holds more than head + tail = 35 rows; of a
\* payload with more rows it holds the first 25 and the last 10; of a payload
\* with 35 rows or fewer it holds every row, none being left out.
C16_SampleKeepsSmallPayloadsWhole ==
    prompt.done =>
        /\ Len(prompt.p.rows) <= HeadRows + TailRows
        /\ Len(payload.rows) > HeadRows + TailRows =>
              prompt.p.rows = Take(payload.rows, HeadRows) \o LastN(payload.rows, TailRows)
        /\ Len(payload.rows) <= HeadRows + TailRows => prompt.p.rows = payload.rows

\* what the session holds when the page of a step was rendered
StepsInOrder ==
    /\ session.has_pivot => session.has_df
    /\ (page.step = 2 /\ page.shown # "need_upload") => session.has_df
    /\ (page.step \in {3, 4} /\ page.shown # "need_pivot") => session.has_pivot

\* a run of step 2, 3 or 4 before its prerequisite is stored renders the
\* guidance and stores nothing
EarlyVisitOnlyGuides ==
    /\ (page'.step = 2 /\ ~session.has_df) => page'.shown = "need_upload"
    /\ (page'.step \in {3, 4} /\ ~session.has_pivot) => page'.shown = "need_pivot"
    /\ page'.shown \in {"need_upload", "need_pivot"} => session' = session

\* C17: a pivot is stored only if a table is stored; step 2 builds a pivot
\* only after a successful upload, steps 3 and 4 work only after a
\* successful build; a visit of step 2, 3 or 4 before that shows the guidance
\* text and changes no stored state.
C17_StepsGatedByStoredState ==
    [](StepsInOrder) /\ [][EarlyVisitOnlyGuides]_vars

\* step 3 visited with a table but no pivot: guidance, nothing stored
C17_Witness ==
    /\ page.step = 3 /\ page.shown = "need_pivot"
    /\ session.has_df /\ ~session.has_pivot

\* the stored pivot is what build_pivot returns for the stored table under
\* some configuration of step 2
PivotOfStoredTable ==
    \E ic \in SessionIndexChoices, vc \in SessionValueChoices, agg \in Aggregators :
        /\ Range(ic) \cup Range(vc) \subseteq Range(session.df.columns)
        /\ build_pivot(session.df.rows, ic, <<>>, vc, agg) = Returned(session.pivot, "")

\* C18: whenever step 3 or step 4 works on the stored pivot, that pivot was
\* built from the table now stored; once a configuration was rejected in
\* step 2, the pivot of an earlier configuration is not served.
C18_ServedPivotIsCurrent ==
    /\ []((page.step \in {3, 4} /\ page.shown # "need_pivot") => PivotOfStoredTable)
    /\ [][(/\ page.step = 2 /\ page.shown \in {"guidance", "exception"}
           /\ page'.step \in {3, 4}) => page'.shown = "need_pivot"]_vars

\* the six roles of _infer_metrics_from_payload
Roles == {"impressions", "clicks", "ctr", "spend", "cpc", "cpm"}

\* C19: metric inference gives a column name to at most one of the six
\* roles: no two roles are assigned the same column.
C19_ColumnHasAtMostOneRole ==
    (analysis.done /\ ~analysis.raised) =>
        \A a, b \in Roles :
            (/\ a # b
             /\ analysis.inferred_metrics[a].has
             /\ analysis.inferred_metrics[b].has) =>
                analysis.inferred_metrics[a].name # analysis.inferred_metrics[b].name

=============================================================================
